---- MODULE Spec2Model ----
(***************************************************************************)
(* SQLite-dump to PostgreSQL converters: convert-to-postgres.py (schema    *)
(* and data) and convert-data-only.py (INSERT statements only).            *)
(*                                                                         *)
(* A text is a sequence of characters, each character a one-character      *)
(* string.  Every re.sub of the two scripts is a pattern (literal pieces   *)
(* and greedy character-class runs) applied by Sub, which scans the text   *)
(* left to right for non-overlapping matches exactly as re.sub does.       *)
(***************************************************************************)
EXTENDS Integers, Sequences, FiniteSets, TLC

VARIABLES
    tool,       \* which script runs: "schema" or "data"
    argv,       \* the command-line arguments after the script name
    infile,     \* the input path: [state, text]
    outfile,    \* the output path: [exists, text]
    outperm,    \* whether the output path can be opened for writing
    now,        \* the wall clock (seconds since the epoch), read by datetime.now()
    tz,         \* the local timezone's offset from UTC, in seconds
    pc,         \* "start", "parsed" (arguments accepted), "exit"
    exitcode,   \* the process's exit status once pc = "exit", -1 before
    stdout,     \* what was printed to standard output, in order
    stderr,     \* what was printed to standard error, in order
    runs,       \* how many runs have been started on this file system
    out0,       \* the output path as it was when this run started
    prev        \* the previous run at its exit: [tz, now, outfile, exitcode]

vars == <<tool, argv, infile, outfile, outperm, now, tz, pc, exitcode,
          stdout, stderr, runs, out0, prev>>

-----------------------------------------------------------------------------
(* Characters and character classes of Python's re module.                 *)

\* A string literal as a text.
Chars(s) == [i \in 1..Len(s) |-> SubSeq(s, i, i)]

\* The backtick cannot be written inside a TLA+ string; this stands for it.
Backtick == "BT"

LowerCase == Chars("abcdefghijklmnopqrstuvwxyz")
UpperCase == Chars("ABCDEFGHIJKLMNOPQRSTUVWXYZ")
DigitChars == Chars("0123456789")

IsDigit(c) == \E i \in 1..10 : DigitChars[i] = c
IsAlpha(c) == \E i \in 1..26 : LowerCase[i] = c \/ UpperCase[i] = c
\* \w of the re module
IsWord(c) == IsDigit(c) \/ IsAlpha(c) \/ c = "_"
\* \s of the re module, and what str.strip() strips
IsSpace(c) == c \in {" ", "\n", "\t"}

\* str.upper() of one character (re.IGNORECASE compares case-folded)
Up(c) ==
    IF \E i \in 1..26 : LowerCase[i] = c
    THEN UpperCase[CHOOSE i \in 1..26 : LowerCase[i] = c]
    ELSE c

\* The value of a decimal digit.
DigitVal(c) == (CHOOSE i \in 1..10 : DigitChars[i] = c) - 1
DigitOf(n) == DigitChars[n + 1]

-----------------------------------------------------------------------------
(* Patterns.  A pattern is [items, ic, wb, we]: items matched in sequence, *)
(* ic = re.IGNORECASE, wb / we = a \b before / after the items.          *)
(*   [k |-> "lit", s]        the literal text s                            *)
(*   [k |-> "not", x, sp]    a group ([^x]+): one or more characters not   *)
(*                           in x, nor whitespace when sp; greedy.  Every  *)
(*                           such group of the scripts is followed by a    *)
(*                           literal that starts with an excluded          *)
(*                           character (or ends the pattern), so the       *)
(*                           greedy run is the only candidate.             *)
(*   [k |-> "wsnl"]          \s*\n: the whitespace run up to and including *)
(*                           its last newline                              *)
(*   [k |-> "digits", lo, hi] a group of [0-9]{lo,hi}, greedy              *)

Lit(str) == [k |-> "lit", s |-> Chars(str)]
LitC(cs) == [k |-> "lit", s |-> cs]
Not(x, sp) == [k |-> "not", x |-> x, sp |-> sp]
Pat(items) == [items |-> items, ic |-> FALSE, wb |-> FALSE, we |-> FALSE]
PatB(items, ic) == [items |-> items, ic |-> ic, wb |-> TRUE, we |-> TRUE]

NoMatch == [ok |-> FALSE, end |-> 0, groups |-> <<>>]

\* Whether the literal lit stands in s at position i.
LitAt(s, i, lit, ic) ==
    /\ i + Len(lit) - 1 <= Len(s)
    /\ \A k \in 1..Len(lit) :
          IF ic THEN Up(s[i + k - 1]) = Up(lit[k]) ELSE s[i + k - 1] = lit[k]

\* Whether character c is in the class of item it.
InClass(it, c) ==
    CASE it.k = "not"    -> c \notin it.x /\ ~(it.sp /\ IsSpace(c))
      [] it.k = "wsnl"   -> IsSpace(c)
      [] it.k = "digits" -> IsDigit(c)
      [] OTHER           -> FALSE

\* The end (exclusive) of the longest run from i of characters in the class
\* of item it.
RunEnd(s, i, it) ==
    CHOOSE j \in i..(Len(s) + 1) :
        /\ j = Len(s) + 1 \/ ~InClass(it, s[j])
        /\ \A h \in i..(j - 1) : InClass(it, s[h])

\* \b at position i of s (between s[i-1] and s[i]).
Boundary(s, i) ==
    LET before == i > 1 /\ i - 1 <= Len(s) /\ IsWord(s[i - 1])
        after  == i >= 1 /\ i <= Len(s) /\ IsWord(s[i])
    IN before # after

\* The items from the n-th on, matched at position i.
RECURSIVE MatchItems(_, _, _, _, _)
MatchItems(p, n, s, i, groups) ==
    IF n > Len(p.items)
    THEN IF p.we /\ ~Boundary(s, i) THEN NoMatch
         ELSE [ok |-> TRUE, end |-> i, groups |-> groups]
    ELSE LET it == p.items[n] IN
         CASE it.k = "lit" ->
                IF LitAt(s, i, it.s, p.ic)
                THEN MatchItems(p, n + 1, s, i + Len(it.s), groups)
                ELSE NoMatch
           [] it.k = "not" ->
                LET e == RunEnd(s, i, it) IN
                IF e > i
                THEN MatchItems(p, n + 1, s, e, Append(groups, SubSeq(s, i, e - 1)))
                ELSE NoMatch
           [] it.k = "wsnl" ->
                LET e == RunEnd(s, i, it)
                    nls == {j \in i..(e - 1) : s[j] = "\n"}
                IN IF nls = {} THEN NoMatch
                   ELSE MatchItems(p, n + 1, s,
                                   (CHOOSE j \in nls : \A h \in nls : h <= j) + 1,
                                   groups)
           [] it.k = "digits" ->
                LET r == RunEnd(s, i, it)
                    e == IF r - i > it.hi THEN i + it.hi ELSE r
                IN IF e - i >= it.lo
                   THEN MatchItems(p, n + 1, s, e, groups)
                   ELSE NoMatch
           [] OTHER -> NoMatch

\* The match of p that starts at position i, if any.
MatchAt(p, s, i) ==
    IF p.wb /\ ~Boundary(s, i) THEN NoMatch
    ELSE MatchItems(p, 1, s, i, <<>>)

(* A replacement is a sequence of                                          *)
(*   [k |-> "lit", s]   literal text                                       *)
(*   [k |-> "grp", n]   \n, the n-th group of the match                    *)
(*   [k |-> "fn"]       the callable unix_timestamp_to_postgres, applied   *)
(*                      to the match                                       *)
Grp(n) == [k |-> "grp", n |-> n]

-----------------------------------------------------------------------------
(* Integers and calendar time.  Python integers are unbounded and TLC's    *)
(* are 32 bits wide, so an integer n of up to 13 digits is carried as      *)
(* [thou, unit] with n = 1000 * thou + unit and 0 <= unit < 1000.          *)

RECURSIVE IntOf(_)
IntOf(ds) ==
    IF ds = <<>> THEN 0
    ELSE 10 * IntOf(SubSeq(ds, 1, Len(ds) - 1)) + DigitVal(ds[Len(ds)])

\* int(timestamp) for a digit string of at least four digits
int(ds) == [thou |-> IntOf(SubSeq(ds, 1, Len(ds) - 3)),
            unit |-> IntOf(SubSeq(ds, Len(ds) - 2, Len(ds)))]

Big(n) == [thou |-> n \div 1000, unit |-> n % 1000]

\* timestamp_int > 1e10
\* Variant: the threshold itself counts as milliseconds (>= instead of >).
IsMillisFromThreshold(n) == n.thou >= 10000000
IsMillis(n) == n.thou > 10000000 \/ (n.thou = 10000000 /\ n.unit > 0)

\* timestamp_int // 1000
FloorDiv1000(n) == Big(n.thou)

Pad2(n) == <<DigitOf((n \div 10) % 10), DigitOf(n % 10)>>
Pad4(n) == <<DigitOf((n \div 1000) % 10), DigitOf((n \div 100) % 10)>> \o Pad2(n)

\* The proleptic Gregorian date of day number z (days since 1970-01-01),
\* as datetime computes it.
CivilFromDays(z) ==
    LET zz  == z + 719468
        era == zz \div 146097
        doe == zz - era * 146097
        yoe == (doe - (doe \div 1460) + (doe \div 36524) - (doe \div 146096)) \div 365
        doy == doe - (365 * yoe + (yoe \div 4) - (yoe \div 100))
        mp  == (5 * doy + 2) \div 153
        m   == IF mp < 10 THEN mp + 3 ELSE mp - 9
    IN [year  |-> yoe + era * 400 + (IF m <= 2 THEN 1 ELSE 0),
        month |-> m,
        day   |-> doy - ((153 * mp + 2) \div 5) + 1]

\* datetime.fromtimestamp(n) in a timezone off seconds east of UTC:
\* 86400 = 200 * 432, and 1000 * thou is a multiple of 200.
fromtimestamp(n, off) ==
    LET u    == n.unit + off
        thou == n.thou + (u \div 1000)
        unit == u % 1000
        m    == 5 * thou + (unit \div 200)
        sod  == (m % 432) * 200 + (unit % 200)
        date == CivilFromDays(m \div 432)
    IN [year |-> date.year, month |-> date.month, day |-> date.day,
        hour |-> sod \div 3600, minute |-> (sod \div 60) % 60, second |-> sod % 60]

\* dt.strftime('%Y-%m-%d %H:%M:%S')
strftime(dt) ==
    Pad4(dt.year) \o <<"-">> \o Pad2(dt.month) \o <<"-">> \o Pad2(dt.day) \o <<" ">>
    \o Pad2(dt.hour) \o <<":">> \o Pad2(dt.minute) \o <<":">> \o Pad2(dt.second)

unix_timestamp_to_postgres(timestamp, off) ==
    LET timestamp_int == int(timestamp)
        secs == IF IsMillis(timestamp_int) THEN FloorDiv1000(timestamp_int)
                ELSE timestamp_int
        dt == fromtimestamp(secs, off)
    \* datetime raises ValueError for a year outside 1..9999
    IN IF dt.year >= 1 /\ dt.year <= 9999
       THEN <<"'">> \o strftime(dt) \o <<"'">>
       ELSE <<"'">> \o timestamp \o <<"'">>

-----------------------------------------------------------------------------
(* re.sub                                                                  *)

RECURSIVE Expand(_, _, _, _)
Expand(repl, groups, whole, off) ==
    IF repl = <<>> THEN <<>>
    ELSE LET it == Head(repl)
             piece == CASE it.k = "lit" -> it.s
                        [] it.k = "grp" -> groups[it.n]
                        [] it.k = "fn"  -> unix_timestamp_to_postgres(whole, off)
                        [] OTHER        -> <<>>
         IN piece \o Expand(Tail(repl), groups, whole, off)

\* One step of re.sub's scan at position i: a match of p that starts there is
\* replaced and the scan resumes at its end, any other character is copied.
ScanStep(p, repl, s, i, off) ==
    LET m == MatchAt(p, s, i) IN
    IF m.ok
    THEN [out |-> Expand(repl, m.groups, SubSeq(s, i, m.end - 1), off),
          pos |-> m.end, n |-> 1]
    ELSE [out |-> <<s[i]>>, pos |-> i + 1, n |-> 0]

\* The scan from position i until it reaches position j or beyond (i < j):
\* the output, the position reached and the number of matches.  The range is
\* halved instead of stepping through it so that the evaluation stays shallow.
RECURSIVE Scan(_, _, _, _, _, _)
Scan(p, repl, s, i, j, off) ==
    IF j - i <= 1 THEN ScanStep(p, repl, s, i, off)
    ELSE LET a == Scan(p, repl, s, i, (i + j) \div 2, off) IN
         IF a.pos >= j THEN a
         ELSE LET b == Scan(p, repl, s, a.pos, j, off) IN
              [out |-> a.out \o b.out, pos |-> b.pos, n |-> a.n + b.n]

\* re.sub(p, repl, s) with the callable of repl run in timezone off: every
\* leftmost non-overlapping match of p replaced.
SubFrom(p, repl, s, off) ==
    IF s = <<>> THEN <<>> ELSE Scan(p, repl, s, 1, Len(s) + 1, off).out

Sub(p, repl, s) == SubFrom(p, repl, s, 0)

\* How many non-overlapping matches p has in s; whether it matches somewhere.
Count(p, s) == IF s = <<>> THEN 0 ELSE Scan(p, <<>>, s, 1, Len(s) + 1, 0).n
Search(p, s) == \E i \in 1..Len(s) : MatchAt(p, s, i).ok

\* str.split('\n') and '\n'.join
split(s) ==
    LET nl == {i \in 1..Len(s) : s[i] = "\n"}
        \* the position of the k-th newline; 0 and Len(s) + 1 fence the text
        at(k) == IF k = 0 THEN 0
                 ELSE IF k > Cardinality(nl) THEN Len(s) + 1
                 ELSE CHOOSE i \in nl : Cardinality({h \in nl : h < i}) = k - 1
    IN [k \in 1..(Cardinality(nl) + 1) |-> SubSeq(s, at(k - 1) + 1, at(k) - 1)]

RECURSIVE join(_)
join(ls) ==
    IF Len(ls) = 0 THEN <<>>
    ELSE IF Len(ls) = 1 THEN ls[1]
    ELSE ls[1] \o <<"\n">> \o join(Tail(ls))

\* line.strip().startswith(prefix)
StripStartsWith(line, prefix) ==
    LET i == RunEnd(line, 1, [k |-> "wsnl"]) IN LitAt(line, i, prefix, FALSE)

RECURSIVE SelectLines(_, _)
SelectLines(ls, prefix) ==
    IF ls = <<>> THEN <<>>
    ELSE (IF StripStartsWith(Head(ls), prefix) THEN <<Head(ls)>> ELSE <<>>)
         \o SelectLines(Tail(ls), prefix)

-----------------------------------------------------------------------------
(* The substitution rules.  A rule is [p, r]: re.sub(p, r, content).       *)

Rule(p, r) == [p |-> p, r |-> r]
Apply(rule, s, off) == SubFrom(rule.p, rule.r, s, off)

\* The rules of a list applied in order, each to the output of the one before.
RECURSIVE ApplyAll(_, _, _)
ApplyAll(rules, s, off) ==
    IF rules = <<>> THEN s
    ELSE ApplyAll(Tail(rules), Apply(Head(rules), s, off), off)

\* A literal replaced by a literal.
LitRule(from, to) == Rule(Pat(<<Lit(from)>>), <<Lit(to)>>)
\* \bword\b replaced by a literal.
WordRule(word, ic, to) == Rule(PatB(<<Lit(word)>>, ic), <<Lit(to)>>)

(* convert-to-postgres.py *)

\* r'PRAGMA[^;]+;' -> ''
PragmaRule == Rule(Pat(<<Lit("PRAGMA"), Not({";"}, FALSE), Lit(";")>>), <<>>)

\* r'`([^`]+)`' -> r'"\1"'
BacktickRule ==
    Rule(Pat(<<LitC(<<Backtick>>), Not({Backtick}, FALSE), LitC(<<Backtick>>)>>),
         <<Lit("\""), Grp(1), Lit("\"")>>)

IntegerRule == WordRule("integer", TRUE, "INTEGER")
TextRule    == WordRule("text", TRUE, "TEXT")
RealRule    == WordRule("real", TRUE, "REAL")
NumericRule == WordRule("numeric", TRUE, "NUMERIC")

\* Variant: the idiom is matched in upper case only.
AutoincrementRuleCaseSensitive ==
    WordRule("INTEGER PRIMARY KEY AUTOINCREMENT", FALSE, "SERIAL PRIMARY KEY")
AutoincrementRule ==
    WordRule("INTEGER PRIMARY KEY AUTOINCREMENT", TRUE, "SERIAL PRIMARY KEY")
IdSerialRule == WordRule("id SERIAL PRIMARY KEY", FALSE, "id SERIAL PRIMARY KEY")

DefaultParenRule == LitRule("DEFAULT (CURRENT_TIMESTAMP)", "DEFAULT CURRENT_TIMESTAMP")
DefaultRule      == LitRule("DEFAULT CURRENT_TIMESTAMP", "DEFAULT CURRENT_TIMESTAMP")

FalseRule == WordRule("false", FALSE, "FALSE")
TrueRule  == WordRule("true", FALSE, "TRUE")

\* r'INSERT INTO ([^"\s(]+)' -> r'INSERT INTO "\1"' (both scripts)
InsertQuoteRule ==
    Rule(Pat(<<Lit("INSERT INTO "), Not({"\"", "("}, TRUE)>>),
         <<Lit("INSERT INTO \""), Grp(1), Lit("\"")>>)

\* r'INSERT INTO "([^"]+)" VALUES\(NULL,' -> r'INSERT INTO "\1" VALUES(DEFAULT,'
InsertNullRule ==
    Rule(Pat(<<Lit("INSERT INTO \""), Not({"\""}, FALSE), Lit("\" VALUES(NULL,")>>),
         <<Lit("INSERT INTO \""), Grp(1), Lit("\" VALUES(DEFAULT,")>>)

\* r'VALUES\(NULL,' -> 'VALUES(DEFAULT,' (both scripts)
ValuesNullRule == LitRule("VALUES(NULL,", "VALUES(DEFAULT,")

\* r'REFERENCES ([^(]+)\(([^)]+)\)' -> r'REFERENCES "\1"("\2")'
ReferencesRule ==
    Rule(Pat(<<Lit("REFERENCES "), Not({"("}, FALSE), Lit("("), Not({")"}, FALSE),
               Lit(")")>>),
         <<Lit("REFERENCES \""), Grp(1), Lit("\"(\""), Grp(2), Lit("\")")>>)

\* r'\n\s*\n' -> '\n\n'
\* Variant: only newlines with nothing between them are collapsed.
BlankLinesRuleNewlinesOnly == Rule(Pat(<<Lit("\n\n\n")>>), <<Lit("\n\n")>>)
BlankLinesRule == Rule(Pat(<<Lit("\n"), [k |-> "wsnl"]>>), <<Lit("\n\n")>>)

SchemaRules ==
    <<PragmaRule, BacktickRule, IntegerRule, TextRule, RealRule, NumericRule,
      AutoincrementRule, IdSerialRule, DefaultParenRule, DefaultRule,
      FalseRule, TrueRule, InsertQuoteRule, InsertNullRule, ValuesNullRule,
      ReferencesRule, BlankLinesRule>>

SchemaPreamble ==
    Chars("-- Converted from SQLite to PostgreSQL\n")
    \o Chars("SET client_encoding = 'UTF8';\n")
    \o Chars("SET standard_conforming_strings = on;\n")
    \o Chars("\n")

\* The text convert_sqlite_to_postgres writes for the input text content.
SchemaOutput(content) == SchemaPreamble \o ApplyAll(SchemaRules, content, 0)

(* convert-data-only.py *)

\* r'\b(1[0-9]{9,12})\b' -> unix_timestamp_to_postgres
TimestampRule ==
    Rule([items |-> <<Lit("1"), [k |-> "digits", lo |-> 9, hi |-> 12]>>,
          ic |-> FALSE, wb |-> TRUE, we |-> TRUE],
         <<[k |-> "fn"]>>)

BoolRules ==
    <<LitRule(",0,", ",FALSE,"), LitRule(",1,", ",TRUE,"),
      LitRule("(0,", "(FALSE,"), LitRule("(1,", "(TRUE,"),
      LitRule(",0)", ",FALSE)"), LitRule(",1)", ",TRUE)")>>

\* r'""([^"]+)""' -> r'"\1"'
DoubledQuoteRule ==
    Rule(Pat(<<Lit("\"\""), Not({"\""}, FALSE), Lit("\"\"")>>),
         <<Lit("\""), Grp(1), Lit("\"")>>)

\* The rewrites of the joined INSERT lines up to the doubled-quote clean-up,
\* and all of them.
DataRulesLocal == <<InsertQuoteRule, TimestampRule>> \o BoolRules \o <<ValuesNullRule>>
DataRules == DataRulesLocal \o <<DoubledQuoteRule>>

\* lines whose stripped text starts with 'INSERT INTO'
insert_lines(content) == SelectLines(split(content), Chars("INSERT INTO"))

DataPreamble(clock, off) ==
    Chars("-- Data import for PostgreSQL (converted from SQLite)\n")
    \o Chars("-- Generated on ") \o strftime(fromtimestamp(Big(clock), off)) \o Chars("\n")
    \o Chars("SET client_encoding = 'UTF8';\n")
    \o Chars("SET standard_conforming_strings = on;\n")
    \o Chars("\n")
    \o Chars("-- Temporarily disable foreign key checks for data import\n")
    \o Chars("SET session_replication_role = replica;\n")
    \o Chars("\n")

DataPostamble ==
    Chars("\n\n-- Re-enable foreign key checks\nSET session_replication_role = DEFAULT;\n")

\* The rewritten INSERT lines, joined: the body of the output.
DataBody(content, off) == ApplyAll(DataRules, join(insert_lines(content)), off)

\* Variant: the postamble is stamped with the time of the run as well.
DataOutputStamped(content, clock, off) ==
    DataPreamble(clock, off) \o DataBody(content, off) \o DataPostamble
        \o Chars("-- Finished on ") \o strftime(fromtimestamp(Big(clock), off))
        \o Chars("\n")

\* Variant: the re-enabling directive is emitted before the statements.
DataOutputPostambleFirst(content, clock, off) ==
    DataPreamble(clock, off) \o DataPostamble \o DataBody(content, off)

\* The text convert_sqlite_data_to_postgres writes when there are INSERT lines.
DataOutput(content, clock, off) ==
    DataPreamble(clock, off) \o DataBody(content, off) \o DataPostamble

-----------------------------------------------------------------------------
(* The file system, the process and its two entry points.                  *)

Absent == [exists |-> FALSE, text |-> <<>>]
File(text) == [exists |-> TRUE, text |-> text]
Readable(text) == [state |-> "text", text |-> text]
\* open(input_file, 'r') / f.read() raise for a path that is missing
\* (FileNotFoundError), unreadable (PermissionError) or not text in the
\* default encoding (UnicodeDecodeError).
Unreadable(why) == [state |-> why, text |-> <<>>]

Msg(kind, n) == [msg |-> kind, n |-> n]

\* The status main passes to sys.exit in its except clause, the status of a
\* run that falls off the end of main, and argparse's status for a usage error.
ExitOnError == 1
ExitOk == 0
ExitUsage == 2

\* What a conversion function did: whether it raised, the output path
\* afterwards and what it printed.
Outcome(raised, out, printed) == [raised |-> raised, out |-> out, printed |-> printed]

\* open(output_file, 'w') ... f.write(text): a path that cannot be opened is
\* left as it was; once opened the file is truncated, and a write that fails
\* (no space left) leaves it without the text.
WriteFile(old, perm, text, printed) ==
    CASE perm = "denied"  -> Outcome(TRUE, old, <<>>)
      [] perm = "nospace" -> Outcome(TRUE, File(<<>>), <<>>)
      [] OTHER            -> Outcome(FALSE, File(text), printed)

convert_sqlite_to_postgres(in, out, perm) ==
    IF in.state # "text" THEN Outcome(TRUE, out, <<>>)
    ELSE WriteFile(out, perm, SchemaOutput(in.text), <<Msg("Converted", 0)>>)

\* Variant: no early return when the filtered line list is empty.
convert_without_early_return(in, out, perm, clock, off) ==
    IF in.state # "text" THEN Outcome(TRUE, out, <<>>)
    ELSE WriteFile(out, perm, DataOutput(in.text, clock, off),
                   <<Msg("Converted", Len(insert_lines(in.text)))>>)

convert_sqlite_data_to_postgres(in, out, perm, clock, off) ==
    IF in.state # "text" THEN Outcome(TRUE, out, <<>>)
    ELSE IF insert_lines(in.text) = <<>>
    THEN Outcome(FALSE, out, <<Msg("No INSERT statements found in input file", 0)>>)
    ELSE WriteFile(out, perm, DataOutput(in.text, clock, off),
                   <<Msg("Converted", Len(insert_lines(in.text)))>>)

\* parser.parse_args(): -h prints the help and exits 0; anything but the two
\* positional arguments is a usage error, reported on standard error with
\* status 2.
ParseArgs ==
    /\ pc = "start"
    /\ IF \E i \in 1..Len(argv) : argv[i] = "-h"
       THEN /\ pc' = "exit" /\ exitcode' = ExitOk
            /\ stdout' = Append(stdout, Msg("usage", 0)) /\ stderr' = stderr
       ELSE IF Len(argv) # 2
       THEN /\ pc' = "exit" /\ exitcode' = ExitUsage
            /\ stderr' = Append(stderr, Msg("usage error", 0)) /\ stdout' = stdout
       ELSE /\ pc' = "parsed" /\ UNCHANGED <<exitcode, stdout, stderr>>
    /\ UNCHANGED <<tool, argv, infile, outfile, outperm, now, tz, runs, out0, prev>>

\* Variant: the except clause reports the error and lets main return.
FinishWithoutExit(r, success) ==
    /\ pc' = "exit"
    /\ outfile' = r.out
    /\ exitcode' = ExitOk
    /\ IF r.raised
       THEN /\ stdout' = stdout \o r.printed
            /\ stderr' = Append(stderr, Msg("Error", 0))
       ELSE /\ stdout' = stdout \o r.printed \o <<Msg(success, 0)>>
            /\ stderr' = stderr
    /\ UNCHANGED <<tool, argv, infile, outperm, now, tz, runs, out0, prev>>

\* The try / except of main around the conversion function r.
Finish(r, success) ==
    /\ pc' = "exit"
    /\ outfile' = r.out
    /\ IF r.raised
       THEN /\ exitcode' = ExitOnError
            /\ stdout' = stdout \o r.printed
            /\ stderr' = Append(stderr, Msg("Error", 0))
       ELSE /\ exitcode' = ExitOk
            /\ stdout' = stdout \o r.printed \o <<Msg(success, 0)>>
            /\ stderr' = stderr
    /\ UNCHANGED <<tool, argv, infile, outperm, now, tz, runs, out0, prev>>

\* main of convert-to-postgres.py, after the arguments are parsed
MainSchema ==
    /\ pc = "parsed" /\ tool = "schema"
    /\ Finish(convert_sqlite_to_postgres(infile, outfile, outperm),
              "Conversion completed successfully!")

\* main of convert-data-only.py, after the arguments are parsed
MainData ==
    /\ pc = "parsed" /\ tool = "data"
    /\ Finish(convert_sqlite_data_to_postgres(infile, outfile, outperm, now, tz),
              "Data conversion completed successfully!")

-----------------------------------------------------------------------------
(* Bounds and inputs.                                                      *)

MaxVals == 4      \* values in a generated value list
MaxLines == 3     \* lines in a generated multi-line dump
MaxFrags == 3     \* fragments in a generated schema text
MaxStep == 8      \* sampled epoch seconds: 1000000000 + k * 111111111, k in 0..MaxStep
MaxRuns == 2      \* runs of a converter on one file system

\* The concatenations of exactly n texts of F.
RECURSIVE Concats(_, _)
Concats(F, n) ==
    IF n = 0 THEN {<<>>} ELSE {f \o t : f \in F, t \in Concats(F, n - 1)}

\* Value lists v1,v2,...,vn of V.
RECURSIVE Lists(_, _)
Lists(V, n) ==
    IF n = 1 THEN V ELSE {v \o <<",">> \o t : v \in V, t \in Lists(V, n - 1)}

Strs(S) == {Chars(x) : x \in S}

Argv2 == <<"in.sql", "out.sql">>
Clock0 == 1700000000
Zones == {0 - 18000, 0, 3600}

\* One run about to start: the script t on input text, in timezone z, with
\* the output path in state out.
Start(t, texts, zones, outs) ==
    /\ tool = t
    /\ argv = Argv2
    /\ infile \in {Readable(x) : x \in texts}
    /\ outfile \in outs /\ out0 = outfile
    /\ outperm = "rw"
    /\ now = Clock0
    /\ tz \in zones
    /\ pc = "start" /\ exitcode = 0 - 1
    /\ stdout = <<>> /\ stderr = <<>>
    /\ runs = 1
    /\ prev = [tz |-> 0, now |-> 0, outfile |-> Absent, exitcode |-> 0 - 1]

OldFile == File(Chars("old"))

(* convert-data-only.py on value lists and on dumps of several lines *)

Values == Strs({"0", "1", "10", "21"})
ValueLines ==
    {Chars("INSERT INTO t VALUES(") \o l \o Chars(");") :
        l \in UNION {Lists(Values, n) : n \in 1..MaxVals}}

LineLib ==
    Strs({"CREATE TABLE t (a, b);", "", "INSERT INTO t VALUES(NULL,1);",
          "  INSERT INTO \"u v\" VALUES(0,'x\"\"y');",
          "INSERT INTO \"\"t\"\" VALUES(1,0);",
          "-- INSERT INTO t", "PRAGMA foreign_keys=OFF;"})
Dumps ==
    {join(ls) : ls \in UNION {[1..n -> LineLib] : n \in 1..MaxLines}}

InitData == Start("data", ValueLines \cup Dumps, {0}, {Absent, OldFile})
NextData == ParseArgs \/ MainData
SpecData == InitData /\ [][NextData]_vars

-----------------------------------------------------------------------------
(* Properties of convert-data-only.py (SpecData).                          *)

InsertPrefix == Chars("INSERT INTO")
IsInsertLine(line) == StripStartsWith(line, InsertPrefix)
\* The indices of the lines of ls that are INSERT lines
InsertIdx(ls) == {i \in 1..Len(ls) : IsInsertLine(ls[i])}

\* The run has exited after writing its output.
Wrote ==
    /\ pc = "exit" /\ exitcode = 0
    /\ \E i \in 1..Len(stdout) : stdout[i].msg = "Converted"

\* The text of the output between the preamble and the postamble.
Body(out) ==
    SubSeq(out, Len(DataPreamble(now, tz)) + 1, Len(out) - Len(DataPostamble))

\* The rewrite steps 2-6 applied to one line on its own.
RewriteLine(line) == ApplyAll(DataRules, line, tz)

LinesKept ==
    LET m == insert_lines(infile.text)
        b == split(Body(outfile.text))
    IN /\ SubSeq(outfile.text, 1, Len(DataPreamble(now, tz))) = DataPreamble(now, tz)
       /\ Len(b) = Cardinality(InsertIdx(split(infile.text)))
       /\ Len(b) = Len(m)
       /\ \A i \in 1..Len(b) : IsInsertLine(b[i])

EachLineRewritten ==
    LET m == insert_lines(infile.text)
        b == split(Body(outfile.text))
    IN \A i \in 1..Len(m) : i <= Len(b) /\ b[i] = RewriteLine(m[i])

\* C1 as stated: the body has one line per matching input line, and the i-th
\* body line is the rewritten form of the i-th matching input line.
C1_AsStated == Wrote => (LinesKept /\ EachLineRewritten)

\* The 0 / 1 values of a body that stand between a comma and a comma, between
\* ( and a comma, or between a comma and ).
Positional01(b) ==
    {i \in 2..(Len(b) - 1) :
        /\ b[i] \in {"0", "1"}
        /\ \/ b[i - 1] = "," /\ b[i + 1] \in {",", ")"}
           \/ b[i - 1] = "(" /\ b[i + 1] = ","}

\* The value list of a generated line, rewritten as the rule is described:
\* a value 0 or 1 becomes FALSE or TRUE and any other value stays.
RECURSIVE Booleans(_)
Booleans(vs) ==
    IF vs = <<>> THEN <<>>
    ELSE (IF Head(vs) = <<"0">> THEN Chars("FALSE")
          ELSE IF Head(vs) = <<"1">> THEN Chars("TRUE") ELSE Head(vs))
         \o (IF Len(vs) > 1 THEN <<",">> ELSE <<>>) \o Booleans(Tail(vs))

\* Values split at commas.
CommaSplit(s) ==
    LET c == {i \in 1..Len(s) : s[i] = ","}
        at(k) == IF k = 0 THEN 0
                 ELSE IF k > Cardinality(c) THEN Len(s) + 1
                 ELSE CHOOSE i \in c : Cardinality({h \in c : h < i}) = k - 1
    IN [k \in 1..(Cardinality(c) + 1) |-> SubSeq(s, at(k - 1) + 1, at(k) - 1)]

\* C2 as stated: after a run no 0 or 1 is left in a positional context, also
\* where several such values are adjacent, and for a generated value list
\* the body is the list with every 0 / 1 value replaced and nothing else.
C2_AsStated ==
    Wrote =>
        /\ Positional01(Body(outfile.text)) = {}
        /\ infile.text \in ValueLines =>
              LET t  == infile.text
                  vs == CommaSplit(SubSeq(t, 22, Len(t) - 2))
              IN Body(outfile.text) =
                    Chars("INSERT INTO \"t\" VALUES(") \o Booleans(vs) \o Chars(");")

\* C4: a readable input without INSERT lines leaves the output path as it
\* was (absent, or with its previous content), prints the diagnostic and
\* ends with status 0.
NoInsertLines == infile.state = "text" /\ InsertIdx(split(infile.text)) = {}

C4_NoInsertNoWrite ==
    NoInsertLines =>
        /\ outfile = out0
        /\ pc = "exit" =>
              /\ exitcode = 0
              /\ stderr = <<>>
              /\ \E i \in 1..Len(stdout) :
                    stdout[i].msg = "No INSERT statements found in input file"
              /\ \A i \in 1..Len(stdout) : stdout[i].msg # "Converted"

C4_Witness ==
    /\ NoInsertLines /\ pc = "exit" /\ tool = "data"
    /\ out0 = OldFile /\ outfile = OldFile
    /\ Len(split(infile.text)) >= 2

\* C9: in a written output the replica directive precedes every INSERT line,
\* the DEFAULT directive follows every INSERT line, and the count reported
\* is the number of INSERT lines between the two.
ReplicaLine == Chars("SET session_replication_role = replica;")
DefaultLine == Chars("SET session_replication_role = DEFAULT;")

C9_DirectivesBracket ==
    Wrote =>
        LET ls  == split(outfile.text)
            rep == {i \in 1..Len(ls) : ls[i] = ReplicaLine}
            def == {i \in 1..Len(ls) : ls[i] = DefaultLine}
            ins == InsertIdx(ls)
        IN /\ rep # {} /\ def # {} /\ ins # {}
           /\ \A i \in ins : (\E r \in rep : r < i) /\ (\E d \in def : i < d)
           /\ \A i \in ins : \A r \in rep : \A d \in def : r < i /\ i < d
           /\ \A i \in 1..Len(stdout) :
                 stdout[i].msg = "Converted" => stdout[i].n = Cardinality(ins)

C9_Witness ==
    /\ Wrote
    /\ Cardinality(InsertIdx(split(outfile.text))) >= 2
    /\ Len(split(infile.text)) > Cardinality(InsertIdx(split(infile.text)))

-----------------------------------------------------------------------------
(* The timestamp rule of convert-data-only.py (SpecTime).                  *)

RECURSIVE Dec(_)
Dec(n) == IF n < 10 THEN <<DigitOf(n)>> ELSE Dec(n \div 10) \o <<DigitOf(n % 10)>>

\* Sampled epoch seconds: a stride across the ten-digit values that start
\* with 1, and the last second of a leap day.
Seconds == {1000000000 + k * 111111111 : k \in 0..MaxStep} \cup {1709251199}
Millis == Strs({"000", "001", "999"})

TimeLiterals ==
    {Dec(x) : x \in Seconds}
    \cup {Dec(x) \o r : x \in Seconds, r \in Millis}
    \cup Strs({"10000000000", "10000000001", "19999999999", "160945920012",
               "999999999", "12345678901234", "2000000000", "0160945920"})

TimeInputs ==
    {Chars("INSERT INTO t VALUES(") \o pre \o l \o Chars(");") :
        pre \in {<<>>, <<"x">>}, l \in TimeLiterals}

InitTime == Start("data", TimeInputs, Zones, {Absent})
SpecTime == InitTime /\ [][NextData]_vars

\* The value of a generated line and of the body written for it.
ValueIn(t) == SubSeq(t, 22, Len(t) - 2)
ValueOut(b) == SubSeq(b, 24, Len(b) - 2)

AllDigits(v) == \A i \in 1..Len(v) : IsDigit(v[i])
\* A word-bounded integer literal of 10 to 13 digits whose first digit is 1
IsEpochLiteral(v) == AllDigits(v) /\ Len(v) >= 10 /\ Len(v) <= 13 /\ v[1] = "1"

\* n <= 10^10 for an epoch literal: ten digits, or 10^10 itself
AtMostTenBillion(v) == Len(v) = 10 \/ v = Chars("10000000000")

\* The epoch second the claim names for literal v, as [thou, unit]
ClaimedSecond(v) ==
    LET all == [thou |-> IntOf(SubSeq(v, 1, Len(v) - 3)),
                unit |-> IntOf(SubSeq(v, Len(v) - 2, Len(v)))]
    IN IF AtMostTenBillion(v) THEN all
       ELSE [thou |-> all.thou \div 1000, unit |-> all.thou % 1000]

\* Whether q is a single-quoted 'YYYY-MM-DD HH:MM:SS'
IsTimestampText(q) ==
    /\ Len(q) = 21
    /\ q[1] = "'" /\ q[21] = "'"
    /\ q[6] = "-" /\ q[9] = "-" /\ q[12] = " " /\ q[15] = ":" /\ q[18] = ":"
    /\ \A i \in {2, 3, 4, 5, 7, 8, 10, 11, 13, 14, 16, 17, 19, 20} : IsDigit(q[i])

IsLeap(y) == y % 4 = 0 /\ (y % 100 # 0 \/ y % 400 = 0)
DaysInMonth(y, m) ==
    IF m = 2 THEN (IF IsLeap(y) THEN 29 ELSE 28)
    ELSE IF m \in {4, 6, 9, 11} THEN 30 ELSE 31

\* The day number of a calendar date (days since 1970-01-01), counted from
\* the calendar's rules: whole years (365 days and one more per leap year),
\* whole months, days.
LeapsThrough(y) == (y \div 4) - (y \div 100) + (y \div 400)
DaysBeforeYear(y) == 365 * (y - 1970) + LeapsThrough(y - 1) - LeapsThrough(1969)
RECURSIVE DaysBeforeMonth(_, _)
DaysBeforeMonth(y, m) ==
    IF m = 1 THEN 0 ELSE DaysBeforeMonth(y, m - 1) + DaysInMonth(y, m - 1)

\* The local second count a timestamp text denotes, as [thou, unit], and
\* whether its fields are a valid date and time.
TextFields(q) ==
    [year |-> IntOf(SubSeq(q, 2, 5)), month |-> IntOf(SubSeq(q, 7, 8)),
     day |-> IntOf(SubSeq(q, 10, 11)), hour |-> IntOf(SubSeq(q, 13, 14)),
     minute |-> IntOf(SubSeq(q, 16, 17)), second |-> IntOf(SubSeq(q, 19, 20))]

ValidFields(f) ==
    /\ f.year >= 1970 /\ f.month \in 1..12 /\ f.day \in 1..DaysInMonth(f.year, f.month)
    /\ f.hour \in 0..23 /\ f.minute \in 0..59 /\ f.second \in 0..59

TextSecond(q) ==
    LET f == TextFields(q)
        d == DaysBeforeYear(f.year) + DaysBeforeMonth(f.year, f.month) + f.day - 1
        s == f.hour * 3600 + f.minute * 60 + f.second
        \* 86400 * d + s = 1000 * (86 * d) + (400 * d + s)
        low == 400 * d + s
    IN [thou |-> 86 * d + (low \div 1000), unit |-> low % 1000]

\* n shifted by off seconds
Shift(n, off) ==
    LET u == n.unit + off
    IN [thou |-> n.thou + (u \div 1000), unit |-> u % 1000]

\* C3: an integer literal of 10 to 13 digits that starts with 1 becomes one
\* quoted 'YYYY-MM-DD HH:MM:SS', the local time of epoch second n when
\* n <= 10^10 and of n div 1000 when n > 10^10 (so 1000 * s + r reads as s);
\* any other integer is left as it is.
C3_TimestampRule ==
    Wrote =>
        LET v == ValueIn(infile.text)
            q == ValueOut(Body(outfile.text))
        IN IF IsEpochLiteral(v)
           THEN /\ IsTimestampText(q)
                /\ ValidFields(TextFields(q))
                /\ TextSecond(q) = Shift(ClaimedSecond(v), tz)
                /\ Len(v) = 13 =>
                      q = unix_timestamp_to_postgres(SubSeq(v, 1, 10), tz)
           ELSE q = v

\* A 13-digit literal with a non-zero millisecond part, converted in a
\* timezone west of UTC.
C3_Witness ==
    /\ Wrote /\ tz < 0
    /\ LET v == ValueIn(infile.text)
       IN /\ IsEpochLiteral(v) /\ Len(v) = 13 /\ v[13] = "9"
          /\ IsTimestampText(ValueOut(Body(outfile.text)))

-----------------------------------------------------------------------------
(* convert-to-postgres.py on foreign-key clauses (SpecRefs).               *)

NextSchema == ParseArgs \/ MainSchema

\* A name written bare, in backticks or in double quotes.
Quoted(style, name) ==
    CASE style = "backtick" -> <<Backtick>> \o name \o <<Backtick>>
      [] style = "double"   -> <<"\"">> \o name \o <<"\"">>
      [] OTHER              -> name

QuoteStyles == {"bare", "backtick", "double"}
RefTables == Strs({"users", "t2"})
RefColumns == Strs({"id", "k"})
RefBefore == Strs({"", "u INTEGER ", "CREATE TABLE t (u integer "})
RefAfter == Strs({"", ",", ");\n"})

RefInputs ==
    {pre \o Chars("REFERENCES ") \o Quoted(qt, t) \o <<"(">> \o Quoted(qc, c)
         \o <<")">> \o post :
        pre \in RefBefore, post \in RefAfter, t \in RefTables, c \in RefColumns,
        qt \in QuoteStyles, qc \in QuoteStyles}

InitRefs == Start("schema", RefInputs, {0}, {Absent})
SpecRefs == InitRefs /\ [][NextSchema]_vars

\* The converted content: the output after the preamble.
Content(out) == SubSeq(out, Len(SchemaPreamble) + 1, Len(out))

Contains(s, lit) == \E i \in 1..Len(s) : LitAt(s, i, lit, FALSE)

\* C7 as stated: whatever the quoting of the names in the input clause, the
\* output clause is REFERENCES "table"("column"), each name in one pair of
\* double quotes.
C7_AsStated ==
    Wrote =>
        /\ \E t \in RefTables, c \in RefColumns :
              /\ Contains(infile.text, t) /\ Contains(infile.text, c)
              /\ Contains(Content(outfile.text),
                          Chars("REFERENCES \"") \o t \o Chars("\"(\"") \o c
                              \o Chars("\")"))
        /\ ~Contains(Content(outfile.text), Chars("\"\""))

-----------------------------------------------------------------------------
(* convert-to-postgres.py on the autoincrement idiom (SpecSerial).         *)

Idiom == PatB(<<Lit("INTEGER PRIMARY KEY AUTOINCREMENT")>>, TRUE)
SerialKey == Pat(<<Lit("SERIAL PRIMARY KEY")>>)

SerialFrags ==
    Strs({"PRAGMA k", ";", " ", "x",
          "integer primary key autoincrement",
          "Integer Primary Key AutoIncrement",
          "INTEGER PRIMARY KEY AUTOINCREMENT",
          "INSERT INTO "})

InitSerial == Start("schema", Concats(SerialFrags, MaxFrags), {0}, {Absent})
SpecSerial == InitSerial /\ [][NextSchema]_vars

\* C8 as stated: every occurrence of the idiom in the input has SERIAL
\* PRIMARY KEY in its place in the output, and none remains.
C8_AsStated ==
    Wrote =>
        /\ Count(Idiom, Content(outfile.text)) = 0
        /\ Count(SerialKey, Content(outfile.text)) >= Count(Idiom, infile.text)

\* The word SERIAL ends the table-name token that follows 'INSERT INTO ' and
\* ' PRIMARY KEY' comes next: the INSERT rule closes its double quote there.
SerialAsTableName(b) ==
    \E i \in 1..Len(b) :
        LET m == MatchAt(InsertQuoteRule.p, b, i) IN
        /\ m.ok
        /\ LitAt(b, m.end - 6, Chars("SERIAL PRIMARY KEY"), FALSE)
        /\ m.end - 6 >= i + 12

\* C8, amended: no occurrence of the idiom remains in the output, in any
\* letter case; and every occurrence still in the buffer after the PRAGMA
\* strip (which deletes an occurrence lying between PRAGMA and the next ;)
\* has SERIAL PRIMARY KEY in its place, unless SERIAL is taken as the end of
\* a table name after 'INSERT INTO '.
C8_SerialReplaces ==
    Wrote =>
        LET b1 == Apply(PragmaRule, infile.text, 0)
            b7 == ApplyAll(SubSeq(SchemaRules, 1, 12), infile.text, 0)
        IN /\ Count(Idiom, Content(outfile.text)) = 0
           /\ ~SerialAsTableName(b7) =>
                 Count(SerialKey, Content(outfile.text))
                     = Count(Idiom, b1) + Count(SerialKey, b1)

\* A lower-case and an upper-case occurrence, both replaced.
C8_Witness ==
    /\ Wrote
    /\ Contains(infile.text, Chars("integer primary key autoincrement"))
    /\ Contains(infile.text, Chars("INTEGER PRIMARY KEY AUTOINCREMENT"))
    /\ Count(Idiom, infile.text) = 2
    /\ Count(SerialKey, Content(outfile.text)) = 2

-----------------------------------------------------------------------------
(* convert-to-postgres.py on blank lines (SpecBlank).                      *)

MaxBlankLines == 4    \* lines in a generated text with blank lines

BlankLib == Strs({"", "  ", "a;", "PRAGMA k=1;", "\t"})
BlankInputs ==
    {join(ls) : ls \in UNION {[1..n -> BlankLib] : n \in 1..MaxBlankLines}}

InitBlank == Start("schema", BlankInputs, {0}, {Absent})
SpecBlank == InitBlank /\ [][NextSchema]_vars

\* The lines of a text: a final newline ends the last line.
Lines(t) ==
    LET ls == split(t)
    IN IF ls[Len(ls)] = <<>> THEN SubSeq(ls, 1, Len(ls) - 1) ELSE ls

IsBlank(line) == \A i \in 1..Len(line) : IsSpace(line[i])

\* Two consecutive blank lines at i and i + 1
BlankPair(ls, i) == i + 1 <= Len(ls) /\ IsBlank(ls[i]) /\ IsBlank(ls[i + 1])

\* C10 as stated: the written file has no two consecutive blank lines.
C10_AsStated ==
    Wrote => \A i \in 1..Len(Lines(outfile.text)) : ~BlankPair(Lines(outfile.text), i)

\* C10, amended: in the converted content every run of blank lines between
\* two non-blank lines is one empty line.  Consecutive blank lines can remain
\* only at the start of the content, which the output joins to the blank
\* line that ends the preamble, and at its end.
C10_BlankRunsCollapsed ==
    Wrote =>
        LET ls == Lines(Content(outfile.text))
            text == {i \in 1..Len(ls) : ~IsBlank(ls[i])}
            inner(i) == (\E a \in text : a < i) /\ (\E b \in text : b > i)
        IN \A i \in 1..Len(ls) :
              /\ BlankPair(ls, i) => ~inner(i) \/ ~inner(i + 1)
              /\ IsBlank(ls[i]) /\ inner(i) => ls[i] = <<>>

\* Three blank lines between two statements of the input, one in the output.
C10_Witness ==
    /\ Wrote
    /\ LET in == split(infile.text)
           ls == Lines(Content(outfile.text))
       IN /\ Len(in) = 4 /\ ~IsBlank(in[1]) /\ ~IsBlank(in[4])
          /\ in[1] = Chars("a;")
          /\ IsBlank(in[2]) /\ IsBlank(in[3]) /\ in[2] # <<>>
          /\ ls = <<Chars("a;"), <<>>, in[4]>>

-----------------------------------------------------------------------------
(* Both scripts in their environment: arguments, unreadable input,         *)
(* unwritable output, and a second run later and elsewhere (SpecEnv).      *)

Delays == {0, 1, 86400}

\* The script is started again on the same arguments and file system, some
\* time later and possibly in another timezone.
Rerun ==
    /\ pc = "exit" /\ runs < MaxRuns
    /\ \E d \in Delays, z \in Zones : now' = now + d /\ tz' = z
    /\ prev' = [tz |-> tz, now |-> now, outfile |-> outfile, exitcode |-> exitcode]
    /\ out0' = outfile
    /\ pc' = "start" /\ exitcode' = 0 - 1
    /\ stdout' = <<>> /\ stderr' = <<>>
    /\ runs' = runs + 1
    /\ UNCHANGED <<tool, argv, infile, outfile, outperm>>

EnvTexts ==
    Strs({"CREATE TABLE t (a integer);\n",
          "INSERT INTO t VALUES(1609459200,1);\n",
          "PRAGMA k=1;\nINSERT INTO t VALUES(0);"})

InitEnv ==
    /\ tool \in {"schema", "data"}
    /\ argv \in {Argv2, <<>>, <<"in.sql">>, <<"-h">>}
    /\ infile \in {Readable(x) : x \in EnvTexts}
                  \cup {Unreadable(w) : w \in {"missing", "denied", "undecodable"}}
    /\ outfile = Absent /\ out0 = Absent
    /\ outperm \in {"rw", "denied", "nospace"}
    /\ now = Clock0
    /\ tz \in Zones
    /\ pc = "start" /\ exitcode = 0 - 1
    /\ stdout = <<>> /\ stderr = <<>>
    /\ runs = 1
    /\ prev = [tz |-> 0, now |-> 0, outfile |-> Absent, exitcode |-> 0 - 1]

NextEnv == ParseArgs \/ MainSchema \/ MainData \/ Rerun
SpecEnv == InitEnv /\ [][NextEnv]_vars

\* Two runs have written the output, the second has just exited.
WroteTwice == Wrote /\ runs = 2 /\ prev.exitcode = 0 /\ prev.outfile.exists

DropSecondLine(t) ==
    LET ls == split(t) IN join(<<ls[1]>> \o SubSeq(ls, 3, Len(ls)))

WillWrite == tool = "schema" \/ InsertIdx(split(infile.text)) # {}
Raises == infile.state # "text" \/ (WillWrite /\ outperm # "rw")

Printed(stream, kind) == \E i \in 1..Len(stream) : stream[i].msg = kind
SuccessPrinted ==
    \/ Printed(stdout, "Conversion completed successfully!")
    \/ Printed(stdout, "Data conversion completed successfully!")

\* C6 as stated: every run ends with status 0 or 1: 0 exactly when the
\* conversion function returned without raising, 1 with 'Error: ...' on
\* standard error exactly when it raised; the success message only with 0.
C6_AsStated ==
    pc = "exit" =>
        /\ exitcode \in {0, 1}
        /\ exitcode = 0 <=> (~Raises /\ SuccessPrinted)
        /\ exitcode = 1 <=> (Raises /\ Printed(stderr, "Error"))

\* C6, amended: for every run whose command line is the two positional
\* arguments the contract holds as stated.  A command line argparse rejects
\* ends the run with status 2 and a usage message on standard error, and -h
\* ends it with status 0 after printing the help; in both the conversion
\* function is never called.
ArgsAccepted == Len(argv) = 2 /\ \A i \in 1..Len(argv) : argv[i] # "-h"

C6_ExitCodes ==
    pc = "exit" =>
        IF ArgsAccepted
        THEN /\ exitcode \in {0, 1}
             /\ exitcode = 0 <=> ~Raises
             /\ exitcode = 1 <=> Raises
             /\ Raises => stderr = <<Msg("Error", 0)>> /\ ~SuccessPrinted
             /\ ~Raises => stderr = <<>> /\ SuccessPrinted
        ELSE /\ outfile = out0 /\ ~SuccessPrinted /\ ~Printed(stderr, "Error")
             /\ IF \E i \in 1..Len(argv) : argv[i] = "-h"
                THEN exitcode = 0 /\ Printed(stdout, "usage")
                ELSE exitcode = 2 /\ Printed(stderr, "usage error")

\* A run that could read its input and failed to write its output.
C6_Witness ==
    /\ pc = "exit" /\ ArgsAccepted /\ exitcode = 1
    /\ infile.state = "text" /\ outperm = "nospace"
    /\ stderr = <<Msg("Error", 0)>>

====
